---- MODULE Spec2Model ----
(***************************************************************************)
(* The two FastAPI scaffolds of kandil-code:                               *)
(*   variant 1  src/kandil_code/templates/python/fastapi/app/main.py       *)
(*   variant 2  src/templates/python/fastapi/app/main.py                   *)
(* Each variant is an application object with a route table and stateless  *)
(* handlers.  A request is received by both applications, is routed, has   *)
(* its parameters bound and validated against the handler's annotations,   *)
(* and the handler's return value is encoded as the JSON response.         *)
(*                                                                         *)
(* Annotations are read as written: `int` accepts the text of a decimal    *)
(* integer (path parameters arrive as text), `str` accepts a string, and a *)
(* default is used only when the parameter or field is absent.             *)
(*                                                                         *)
(* time.time() is the wall clock.  It is modelled at a resolution of       *)
(* TicksPerMs ticks per millisecond; between two reads it can advance (the *)
(* handler's thread can be descheduled) or be set back (clock adjustment). *)
(***************************************************************************)
EXTENDS Integers, Sequences, FiniteSets, TLC

----------------------------------------------------------------------------
(* Bounds of the model *)

MaxClock == 3      \* the wall clock ranges over 0..MaxClock ticks
MaxGap == 3        \* largest advance of the clock between readyz's two reads
MaxStep == 3       \* largest set-back of the clock between readyz's two reads
TicksPerMs == 2    \* clock resolution

(* Program constant: the factor of `* 1000` in readyz *)
MsPerSec == 1000

TicksPerSec == TicksPerMs * MsPerSec

----------------------------------------------------------------------------
(* State *)

VARIABLES
    req,       \* the request being served (NoReq before the first)
    pc,        \* per variant: "idle", "received", "bound", "responded"
    params,    \* per variant: the parameters bound for the handler
    resp,      \* per variant: the response to req (NoResp until sent)
    ran,       \* per variant: the handler that ran for req ("none" if none)
    now,       \* the wall clock, in ticks
    arrived,   \* the wall clock when req was received
    start,     \* readyz: the value of its first time.time()
    stop,      \* readyz: the value of its second time.time()
    memo,      \* history: one earlier request, the responses it got, and
               \* whether an Item had been posted before it
    posted,    \* history: an earlier POST /items/ was answered with an Item
    rejected   \* history: an earlier request was rejected by validation

vars == <<req, pc, params, resp, ran, now, arrived, start, stop, memo,
          posted, rejected>>

----------------------------------------------------------------------------
(* Values: JSON on the wire, Python objects inside a handler *)

Absent == <<"absent">>           \* parameter or field not supplied
JNull == <<"null">>              \* JSON null
PyNone == <<"None">>             \* Python None
Text(s) == <<"str", s>>
Num(n) == <<"int", n>>
Flag(b) == <<"bool", b>>

IsStr(x) == x[1] = "str"

Variants == {1, 2}

Digits == <<"0", "1", "2", "3", "4", "5", "6", "7", "8", "9">>

IsDigit(c) == \E i \in 1..10 : Digits[i] = c

DigitVal(c) == (CHOOSE i \in 1..10 : Digits[i] = c) - 1

RECURSIVE NatToStr(_)
NatToStr(n) ==
    IF n < 10 THEN <<Digits[n + 1]>>
    ELSE Append(NatToStr(n \div 10), Digits[(n % 10) + 1])

(* The text a client puts in the path for the integer n *)
IntToStr(n) == IF n < 0 THEN <<"-">> \o NatToStr(-n) ELSE NatToStr(n)

----------------------------------------------------------------------------
(* The requests the environment sends *)

ItemIds == {-4, 42}
Strs == {"foo"}
BadSegs == {<<"x">>, <<"4", "x">>, <<"-">>}
Segs == {IntToStr(n) : n \in ItemIds} \cup {<<"0", "7">>} \cup BadSegs
Queries == {Absent} \cup {Text(s) : s \in Strs}

NoBody == [wellformed |-> FALSE, name |-> Absent, description |-> Absent,
           extra |-> Absent]
NameVals == {Absent, Text("pen"), Num(5)}
DescriptionVals == {Absent, JNull, Text("blue"), Num(5)}
ExtraVals == {Absent, Num(9)}
Bodies ==
    {b \in [wellformed : {TRUE}, name : NameVals,
            description : DescriptionVals, extra : ExtraVals] :
        b.extra = Absent \/ IsStr(b.name)}
    \cup {NoBody}

Req(method, path, seg, q, body) ==
    [method |-> method, path |-> path, seg |-> seg, q |-> q, body |-> body]

Requests ==
    {Req("GET", "/", <<>>, Absent, NoBody)}
    \cup {Req("GET", "/items/{item_id}", s, q, NoBody) : s \in Segs, q \in Queries}
    \cup {Req("POST", "/items/", <<>>, Absent, b) : b \in Bodies}
    \cup {Req("GET", "/healthz", <<>>, Absent, NoBody)}
    \cup {Req("GET", "/readyz", <<>>, Absent, NoBody)}

NoReq == Req("none", "none", <<>>, Absent, NoBody)

----------------------------------------------------------------------------
(* Route tables: the decorators of each variant *)

routes_v1 ==
    {<<"GET", "/">>, <<"GET", "/items/{item_id}">>, <<"POST", "/items/">>}

routes_v2 ==
    {<<"GET", "/">>, <<"GET", "/items/{item_id}">>, <<"POST", "/items/">>,
     <<"GET", "/healthz">>, <<"GET", "/readyz">>}

routes(v) == IF v = 1 THEN routes_v1 ELSE routes_v2

----------------------------------------------------------------------------
(* Parameter binding *)

Invalid == [ok |-> FALSE]

IsIntText(seg) ==
    LET digits == IF Len(seg) > 0 /\ seg[1] = "-" THEN Tail(seg) ELSE seg
    IN  /\ Len(digits) > 0
        /\ \A i \in 1..Len(digits) : IsDigit(digits[i])

RECURSIVE ParseNat(_)
ParseNat(digits) ==
    IF Len(digits) = 0 THEN 0
    ELSE 10 * ParseNat(SubSeq(digits, 1, Len(digits) - 1))
         + DigitVal(digits[Len(digits)])

ParseInt(seg) ==
    IF seg[1] = "-" THEN 0 - ParseNat(Tail(seg)) ELSE ParseNat(seg)

(* read_item(item_id: int, q: str = None), variant 1 *)
read_item_params_v1(seg, q) ==
    IF IsIntText(seg)
    THEN [ok |-> TRUE, item_id |-> Num(ParseInt(seg)),
          q |-> IF q = Absent THEN PyNone ELSE q]
    ELSE Invalid

(* Mutant: every path segment is accepted, a non-integer one as 0 *)
read_item_params_v2_unchecked(seg, q) ==
    [ok |-> TRUE, item_id |-> Num(IF IsIntText(seg) THEN ParseInt(seg) ELSE 0),
     q |-> IF q = Absent THEN PyNone ELSE q]

(* read_item(item_id: int, q: str = None), variant 2 *)
read_item_params_v2(seg, q) ==
    IF IsIntText(seg)
    THEN [ok |-> TRUE, item_id |-> Num(ParseInt(seg)),
          q |-> IF q = Absent THEN PyNone ELSE q]
    ELSE Invalid

(* Mutant: description defaults to the empty string, not to None *)
Item_v1_empty_default(body) ==
    IF /\ body.wellformed
       /\ IsStr(body.name)
       /\ (body.description = Absent \/ IsStr(body.description))
    THEN [ok |-> TRUE, name |-> body.name,
          description |-> IF body.description = Absent THEN Text("")
                          ELSE body.description]
    ELSE Invalid

(* class Item(BaseModel), variant 1: name: str; description: str = None *)
Item_v1(body) ==
    IF /\ body.wellformed
       /\ IsStr(body.name)
       /\ (body.description = Absent \/ IsStr(body.description))
    THEN [ok |-> TRUE, name |-> body.name,
          description |-> IF body.description = Absent THEN PyNone
                          ELSE body.description]
    ELSE Invalid

(* Mutant: description has no default, so it is required *)
Item_v2_description_required(body) ==
    IF /\ body.wellformed
       /\ IsStr(body.name)
       /\ IsStr(body.description)
    THEN [ok |-> TRUE, name |-> body.name, description |-> body.description]
    ELSE Invalid

(* class Item(BaseModel), variant 2: name: str; description: str = None *)
Item_v2(body) ==
    IF /\ body.wellformed
       /\ IsStr(body.name)
       /\ (body.description = Absent \/ IsStr(body.description))
    THEN [ok |-> TRUE, name |-> body.name,
          description |-> IF body.description = Absent THEN PyNone
                          ELSE body.description]
    ELSE Invalid

(* What the framework binds for request r in variant v *)
Bind(v, r) ==
    IF r.path = "/items/{item_id}"
    THEN IF v = 1 THEN read_item_params_v1(r.seg, r.q)
         ELSE read_item_params_v2(r.seg, r.q)
    ELSE IF r.path = "/items/"
    THEN IF v = 1 THEN Item_v1(r.body) ELSE Item_v2(r.body)
    ELSE [ok |-> TRUE]

----------------------------------------------------------------------------
(* Handlers: the value each returns *)

(* Mutant: the greeting is misspelt *)
read_root_v1_misspelt == [Hello |-> Text("world")]

read_root_v1 == [Hello |-> Text("World")]

read_root_v2 == [Hello |-> Text("World")]

(* Mutant: once an Item was posted, a request without q is answered with it *)
read_item_v1_stored(item_id, q) ==
    [item_id |-> item_id, q |-> IF posted /\ q = PyNone THEN Text("pen") ELSE q]

read_item_v1(item_id, q) == [item_id |-> item_id, q |-> q]

(* Mutant: q is not passed on *)
read_item_v2_drops_q(item_id, q) == [item_id |-> item_id, q |-> PyNone]

read_item_v2(item_id, q) == [item_id |-> item_id, q |-> q]

create_item_v1(item) == item

create_item_v2(item) == item

(* Mutant: the liveness signal reports earlier rejected requests *)
healthz_degraded == [status |-> IF rejected THEN Text("degraded") ELSE Text("ok")]

healthz == [status |-> Text("ok")]

(* int(x): truncation towards zero *)
int(num, den) ==
    IF num >= 0 THEN num \div den ELSE 0 - ((0 - num) \div den)

(* Mutant: the interval is measured from the arrival of the request *)
readyz_from_arrival(t_start, t_end) ==
    LET elapsed_ms == int((t_end - arrived) * MsPerSec, TicksPerSec)
    IN  [ready |-> Flag(TRUE), elapsed_ms |-> Num(elapsed_ms)]

(* readyz, given the two values time.time() returned, in ticks *)
readyz(t_start, t_end) ==
    LET elapsed_ms == int((t_end - t_start) * MsPerSec, TicksPerSec)
    IN  [ready |-> Flag(TRUE), elapsed_ms |-> Num(elapsed_ms)]

----------------------------------------------------------------------------
(* Response encoding *)

(* a returned Item is dumped as its declared fields *)
ItemFields(item) == [name |-> item.name, description |-> item.description]

(* a returned dict or model becomes a JSON object; None becomes null *)
Encode(obj) == [k \in DOMAIN obj |-> IF obj[k] = PyNone THEN JNull ELSE obj[k]]

Response(status, body) == [status |-> status, body |-> body]

NoResp == Response(0, [none |-> JNull])
NotFound == Response(404, [detail |-> Text("Not Found")])
Unprocessable == Response(422, [detail |-> Text("validation error")])

----------------------------------------------------------------------------
(* Initial state *)

NoParams == [ok |-> FALSE]
NoMemo ==
    [req |-> NoReq, resp |-> [v \in Variants |-> NoResp], posted |-> FALSE]

Init ==
    /\ req = NoReq
    /\ pc = [v \in Variants |-> "idle"]
    /\ params = [v \in Variants |-> NoParams]
    /\ resp = [v \in Variants |-> NoResp]
    /\ ran = [v \in Variants |-> "none"]
    /\ now \in 0..MaxClock
    /\ arrived = now
    /\ start = now
    /\ stop = now
    /\ memo = NoMemo
    /\ posted = FALSE
    /\ rejected = FALSE

----------------------------------------------------------------------------
(* The environment *)

(* A client sends request r to both applications *)
Receive(r) ==
    /\ \A v \in Variants : pc[v] \in {"idle", "responded"}
    /\ req' = r
    /\ pc' = [v \in Variants |-> "received"]
    /\ params' = [v \in Variants |-> NoParams]
    /\ resp' = [v \in Variants |-> NoResp]
    /\ ran' = [v \in Variants |-> "none"]
    /\ arrived' = now
    /\ start' = now
    /\ stop' = now
    /\ memo' \in {memo} \cup (IF req = NoReq \/ memo # NoMemo THEN {}
                               ELSE {[req |-> req, resp |-> resp,
                                      posted |-> posted]})
    /\ posted' = (posted \/ \E v \in Variants : ran[v] = "create_item")
    /\ rejected' = (rejected \/ \E v \in Variants : resp[v].status = 422)
    /\ UNCHANGED now

(* Time passes *)
Tick ==
    /\ now < MaxClock
    /\ now' = now + 1
    /\ UNCHANGED <<req, pc, params, resp, ran, arrived, start, stop, memo,
                   posted, rejected>>

----------------------------------------------------------------------------
(* The framework's dispatch: routing and parameter validation *)

Dispatch(v) ==
    /\ pc[v] = "received"
    /\ IF <<req.method, req.path>> \notin routes(v)
       THEN /\ resp' = [resp EXCEPT ![v] = NotFound]
            /\ pc' = [pc EXCEPT ![v] = "responded"]
            /\ UNCHANGED params
       ELSE IF Bind(v, req).ok
       THEN /\ params' = [params EXCEPT ![v] = Bind(v, req)]
            /\ pc' = [pc EXCEPT ![v] = "bound"]
            /\ UNCHANGED resp
       ELSE /\ resp' = [resp EXCEPT ![v] = Unprocessable]
            /\ pc' = [pc EXCEPT ![v] = "responded"]
            /\ UNCHANGED params
    /\ UNCHANGED <<req, ran, now, arrived, start, stop, memo, posted, rejected>>

(* The handler named h of variant v returns obj *)
Respond(v, h, obj) ==
    /\ resp' = [resp EXCEPT ![v] = Response(200, Encode(obj))]
    /\ ran' = [ran EXCEPT ![v] = h]
    /\ pc' = [pc EXCEPT ![v] = "responded"]
    /\ UNCHANGED <<req, params, arrived, memo, posted, rejected>>

----------------------------------------------------------------------------
(* The handlers *)

ReadRoot(v) ==
    /\ pc[v] = "bound"
    /\ req.path = "/"
    /\ Respond(v, "read_root", IF v = 1 THEN read_root_v1 ELSE read_root_v2)
    /\ UNCHANGED <<now, start, stop>>

ReadItem(v) ==
    /\ pc[v] = "bound"
    /\ req.path = "/items/{item_id}"
    /\ Respond(v, "read_item",
               IF v = 1 THEN read_item_v1(params[v].item_id, params[v].q)
               ELSE read_item_v2(params[v].item_id, params[v].q))
    /\ UNCHANGED <<now, start, stop>>

CreateItem(v) ==
    /\ pc[v] = "bound"
    /\ req.path = "/items/"
    /\ Respond(v, "create_item",
               ItemFields(IF v = 1 THEN create_item_v1(params[v])
                          ELSE create_item_v2(params[v])))
    /\ UNCHANGED <<now, start, stop>>

Healthz ==
    /\ pc[2] = "bound"
    /\ req.path = "/healthz"
    /\ Respond(2, "healthz", healthz)
    /\ UNCHANGED <<now, start, stop>>

(* Between the two reads the clock advances by gap ticks, or is set back *)
Readyz ==
    /\ pc[2] = "bound"
    /\ req.path = "/readyz"
    /\ \E gap \in (0 - MaxStep)..MaxGap :
        /\ now + gap \in 0..MaxClock
        /\ start' = now
        /\ stop' = now + gap
        /\ now' = now + gap
        /\ Respond(2, "readyz", readyz(now, now + gap))

Next ==
    \/ \E r \in Requests : Receive(r)
    \/ Tick
    \/ \E v \in Variants : Dispatch(v)
    \/ \E v \in Variants : ReadRoot(v)
    \/ \E v \in Variants : ReadItem(v)
    \/ \E v \in Variants : CreateItem(v)
    \/ Healthz
    \/ Readyz

Spec == Init /\ [][Next]_vars

----------------------------------------------------------------------------
(* Properties *)

Done(v) == pc[v] = "responded"

Routed(v) == <<req.method, req.path>> \in routes(v)

OnItem == req.method = "GET" /\ req.path = "/items/{item_id}"

OnCreate == req.method = "POST" /\ req.path = "/items/"

(* the JSON value of an optional input: null when it was not supplied *)
OrNull(x) == IF x = Absent THEN JNull ELSE x

(* C1: GET /items/{item_id} echoes its inputs.  In both variants, for every
   integer item_id written in the path and every optional query string q,
   the response is exactly {"item_id": item_id, "q": q}, with q null when no
   q was supplied, whatever requests came before. *)
C1_ReadItemEchoes ==
    \A v \in Variants : \A n \in ItemIds :
        (Done(v) /\ OnItem /\ req.seg = IntToStr(n))
            => resp[v] = Response(200, [item_id |-> Num(n), q |-> OrNull(req.q)])

C1_Witness ==
    /\ Done(1) /\ Done(2) /\ OnItem
    /\ req.seg = IntToStr(42) /\ req.q = Text("foo")
    /\ resp[1].body.q = Text("foo")
    /\ memo.req # NoReq /\ memo.req # req

(* C2: POST /items/ returns the Item it received.  For every body with a
   textual name and a textual or omitted description, whatever else the body
   carries, the response has exactly the fields name and description, the
   name and description of the body, and a null description when the body
   omitted it. *)
C2_CreateItemEchoes ==
    \A v \in Variants :
        (/\ Done(v) /\ OnCreate
         /\ req.body.wellformed
         /\ IsStr(req.body.name)
         /\ (req.body.description = Absent \/ IsStr(req.body.description)))
            => resp[v] = Response(200, [name |-> req.body.name,
                                        description |-> OrNull(req.body.description)])

C2_Witness ==
    /\ Done(1) /\ Done(2) /\ OnCreate
    /\ req.body.name = Text("pen")
    /\ req.body.description = Absent
    /\ req.body.extra # Absent
    /\ resp[2].body = [name |-> Text("pen"), description |-> JNull]

(* C3 as stated: the response to a request is determined only by the
   request's own inputs, so a request sent again gets the response it got
   before, on every route, whatever was sent in between. *)
C3_SameRequestSameResponse ==
    \A v \in Variants :
        (Done(v) /\ memo.req = req) => resp[v] = memo.resp[v]

(* the elapsed_ms of a readyz whose reads were t_start and t_end *)
ElapsedMs(t_start, t_end) ==
    LET d == t_end - t_start
    IN  IF d >= 0 THEN d \div TicksPerMs ELSE 0 - ((0 - d) \div TicksPerMs)

(* C3, amended: on every route but GET /readyz a request sent again gets the
   response it got before, whatever was sent in between (a POST included);
   on GET /readyz the status and ready are the same again, and elapsed_ms
   is given by the two clock reads of that call alone. *)
C3_DeterminedByRequest ==
    \A v \in Variants :
        /\ (Done(v) /\ memo.req = req /\ req.path # "/readyz")
              => resp[v] = memo.resp[v]
        /\ (Done(v) /\ memo.req = req /\ req.path = "/readyz")
              => /\ resp[v].status = memo.resp[v].status
                 /\ resp[v].status = 200 =>
                      /\ resp[v].body.ready = memo.resp[v].body.ready
                      /\ resp[v].body.elapsed_ms = Num(ElapsedMs(start, stop))

C3_Witness ==
    /\ Done(1) /\ Done(2) /\ OnItem
    /\ memo.req = req
    /\ ~memo.posted /\ posted
    /\ resp[1].status = 200
    /\ resp[2] = memo.resp[2]

(* C4: GET /readyz answers ready = true on every call, and its elapsed_ms is
   the whole milliseconds between the handler's own two clock reads, so it
   is 0 whenever those reads are less than a millisecond apart, however long
   ago the request arrived. *)
C4_ReadyzElapsedIsReadGap ==
    (Done(2) /\ req.path = "/readyz")
        => /\ resp[2].status = 200
           /\ resp[2].body.ready = Flag(TRUE)
           /\ resp[2].body.elapsed_ms = Num(ElapsedMs(start, stop))
           /\ (stop - start < TicksPerMs /\ start - stop < TicksPerMs)
                 => resp[2].body.elapsed_ms = Num(0)

C4_Witness ==
    /\ Done(2) /\ req.path = "/readyz"
    /\ start - arrived >= TicksPerMs
    /\ resp[2].body = [ready |-> Flag(TRUE), elapsed_ms |-> Num(0)]

(* a request the annotations do not admit *)
Malformed ==
    \/ OnItem /\ req.seg \in BadSegs
    \/ OnCreate /\ ~req.body.wellformed
    \/ OnCreate /\ req.body.name = Absent
    \/ OnCreate /\ req.body.name = Num(5)
    \/ OnCreate /\ req.body.description = Num(5)

HandlerOf(path) ==
    CASE path = "/" -> "read_root"
      [] path = "/items/{item_id}" -> "read_item"
      [] path = "/items/" -> "create_item"
      [] path = "/healthz" -> "healthz"
      [] path = "/readyz" -> "readyz"

(* C5: the only error outcome of a routed request is the validation
   rejection.  A GET /items/{item_id} whose item_id is no integer, and a POST
   /items/ whose body is malformed, lacks name or has a wrongly typed field,
   is rejected and no handler runs for it; a request that passed validation
   is answered with success by the handler of its route. *)
C5_OnlyValidationErrors ==
    \A v \in Variants :
        /\ ran[v] # "none" => ~Malformed
        /\ (Done(v) /\ Routed(v)) =>
              /\ resp[v].status \in {200, 422}
              /\ Malformed => (resp[v].status = 422 /\ ran[v] = "none")
              /\ resp[v].status = 422 => (OnItem \/ OnCreate)
              /\ params[v].ok => resp[v].status = 200
              /\ resp[v].status = 200 => ran[v] = HandlerOf(req.path)

C5_Witness ==
    /\ Done(1) /\ Done(2) /\ OnItem
    /\ req.seg = <<"4", "x">>
    /\ resp[1].status = 422 /\ resp[2].status = 422
    /\ ran[1] = "none" /\ ran[2] = "none"

(* C6: GET / is answered with exactly {"Hello": "World"}, in both variants,
   on every call, whatever requests came before. *)
C6_ReadRootConstant ==
    \A v \in Variants :
        (Done(v) /\ req.method = "GET" /\ req.path = "/")
            => resp[v] = Response(200, [Hello |-> Text("World")])

C6_Witness ==
    /\ Done(1) /\ Done(2) /\ req.path = "/"
    /\ posted /\ rejected
    /\ resp[1].status = 200

(* C7: GET /healthz of variant 2 is answered with exactly {"status": "ok"}
   on every call, whatever requests came before, rejected ones included. *)
C7_HealthzConstant ==
    (Done(2) /\ req.method = "GET" /\ req.path = "/healthz")
        => resp[2] = Response(200, [status |-> Text("ok")])

C7_Witness ==
    /\ Done(2) /\ req.path = "/healthz"
    /\ rejected
    /\ resp[2].status = 200

(* C8: on GET /, GET /items/{item_id} and POST /items/ the two variants give
   the same response to every request of every sequence; /healthz and /readyz
   are routes of variant 2 and are not found in variant 1. *)
C8_VariantsAgree ==
    /\ (Done(1) /\ Done(2) /\ <<req.method, req.path>> \in routes_v1)
          => resp[1] = resp[2]
    /\ (Done(1) /\ req.path \in {"/healthz", "/readyz"})
          => resp[1] = NotFound
    /\ (Done(2) /\ req.path \in {"/healthz", "/readyz"})
          => resp[2].status = 200

C8_Witness ==
    /\ Done(1) /\ Done(2) /\ OnCreate
    /\ req.body.description = Absent
    /\ resp[1].status = 200
    /\ resp[1] = resp[2]
    /\ memo.req.path = "/readyz"

(* C9: in every GET /readyz response elapsed_ms is a non-negative integer,
   the second clock read being never earlier than the first. *)
C9_ElapsedNonNegative ==
    (Done(2) /\ req.path = "/readyz")
        => /\ stop >= start
           /\ resp[2].body.elapsed_ms[2] >= 0

====
